---- MODULE Spec2Model ----
(***************************************************************************)
(* Vitalist front end: the DrugForm component (request builder), the App   *)
(* component (handlePredict and its loading / result / error state) and    *)
(* the PredictionResult component (risk classification and presentation).  *)
(*                                                                         *)
(* JavaScript values are tagged records: [t |-> type, v |-> payload].  A   *)
(* string is the sequence of its characters, an array the sequence of its  *)
(* elements, an object a record with t = "object" whose absent properties  *)
(* read as Undefined.  Class names, icons and badges that the components   *)
(* only emit (and never inspect) are kept as plain names.                  *)
(***************************************************************************)
EXTENDS Integers, Sequences, FiniteSets, TLC

VARIABLES
    formData,            \* DrugForm: useState({age, gender, weight, dosage, duration, drug_name})
    advancedOpen,        \* DrugForm: useState(false)
    selectedConditions,  \* DrugForm: useState([])
    currentMedications,  \* DrugForm: useState('')
    allergies,           \* DrugForm: useState('')
    lifestyle,           \* DrugForm: useState([])
    toggledOdd,          \* the toggle buttons of DrugForm clicked an odd number of times so far
    result,              \* App: useState(null)
    isLoading,           \* App: useState(false)
    error,               \* App: useState(null)
    pending,             \* axios.post calls that have not settled yet: their request bodies
    view                 \* what App rendered for the current state

formVars == <<formData, advancedOpen, selectedConditions, currentMedications, allergies, lifestyle,
              toggledOdd>>
appVars == <<result, isLoading, error>>
vars == <<formData, advancedOpen, selectedConditions, currentMedications, allergies, lifestyle,
          toggledOdd, result, isLoading, error, pending, view>>

----------------------------------------------------------------------------
(* JavaScript values *)

Undefined == [t |-> "undefined"]
Null == [t |-> "null"]
Str(s) == [t |-> "string", v |-> s]
Num(n) == [t |-> "number", v |-> n]
Bool(b) == [t |-> "boolean", v |-> b]
Arr(a) == [t |-> "array", v |-> a]
NaN == [t |-> "NaN"]

\* ToBoolean: what `x && ...`, `x || ...`, `x ? :` and `!x` test
Truthy(x) ==
    CASE x.t = "undefined" -> FALSE
      [] x.t = "null" -> FALSE
      [] x.t = "string" -> x.v # <<>>
      [] x.t = "number" -> x.v # 0
      [] x.t = "boolean" -> x.v
      [] x.t = "NaN" -> FALSE
      [] OTHER -> TRUE

\* a || b
Or(a, b) == IF Truthy(a) THEN a ELSE b

\* x.length of a value that is not undefined/null
LengthOf(x) == IF x.t \in {"array", "string"} THEN Num(Len(x.v)) ELSE Undefined

\* the lower-case letter of each upper-case letter, and the reverse
LowerOf ==
    [ A |-> "a", B |-> "b", C |-> "c", D |-> "d", E |-> "e", F |-> "f",
      G |-> "g", H |-> "h", I |-> "i", J |-> "j", K |-> "k", L |-> "l", M |-> "m",
      N |-> "n", O |-> "o", P |-> "p", Q |-> "q", R |-> "r", S |-> "s",
      T |-> "t", U |-> "u", V |-> "v", W |-> "w", X |-> "x", Y |-> "y", Z |-> "z" ]
UpperOf ==
    [ a |-> "A", b |-> "B", c |-> "C", d |-> "D", e |-> "E", f |-> "F",
      g |-> "G", h |-> "H", i |-> "I", j |-> "J", k |-> "K", l |-> "L", m |-> "M",
      n |-> "N", o |-> "O", p |-> "P", q |-> "Q", r |-> "R", s |-> "S",
      t |-> "T", u |-> "U", v |-> "V", w |-> "W", x |-> "X", y |-> "Y", z |-> "Z" ]
UpperLetters == DOMAIN LowerOf
LowerLetters == DOMAIN UpperOf

DigitChars == <<"0", "1", "2", "3", "4", "5", "6", "7", "8", "9">>
DigitSet == {"0", "1", "2", "3", "4", "5", "6", "7", "8", "9"}
DigitValue ==
    "0" :> 0 @@ "1" :> 1 @@ "2" :> 2 @@ "3" :> 3 @@ "4" :> 4 @@
    "5" :> 5 @@ "6" :> 6 @@ "7" :> 7 @@ "8" :> 8 @@ "9" :> 9

\* String.prototype.toLowerCase on the characters of s
toLowerCase(s) == [i \in 1..Len(s) |-> IF s[i] \in UpperLetters THEN LowerOf[s[i]] ELSE s[i]]

\* decimal digits of a natural number
RECURSIVE Digits(_)
Digits(n) ==
    IF n < 10 THEN <<DigitChars[n + 1]>>
    ELSE Digits(n \div 10) \o <<DigitChars[(n % 10) + 1]>>

\* String(x): the characters of the string conversion
String(x) ==
    CASE x.t = "string" -> x.v
      [] x.t = "number" -> IF x.v < 0 THEN <<"-">> \o Digits(-x.v) ELSE Digits(x.v)
      [] x.t = "boolean" -> IF x.v THEN <<"t", "r", "u", "e">> ELSE <<"f", "a", "l", "s", "e">>
      [] x.t = "null" -> <<"n", "u", "l", "l">>
      [] x.t = "undefined" -> <<"u", "n", "d", "e", "f", "i", "n", "e", "d">>
      [] x.t = "NaN" -> <<"N", "a", "N">>
      [] OTHER -> <<"[", "o", "b", "j", "e", "c", "t", " ", "O", "b", "j", "e", "c", "t", "]">>

\* value of a sequence of decimal digit characters
RECURSIVE DigitsValue(_)
DigitsValue(s) ==
    IF s = <<>> THEN 0
    ELSE 10 * DigitsValue(SubSeq(s, 1, Len(s) - 1)) + DigitValue[s[Len(s)]]

\* x > k for a number k: x is converted with ToNumber, and NaN compares false
GreaterThan(x, k) ==
    CASE x.t = "number" -> x.v > k
      [] x.t = "null" -> 0 > k
      [] x.t = "boolean" -> (IF x.v THEN 1 ELSE 0) > k
      [] x.t = "string" ->
            IF \A i \in 1..Len(x.v) : x.v[i] \in DigitSet
            THEN DigitsValue(x.v) > k
            ELSE FALSE
      [] OTHER -> FALSE

----------------------------------------------------------------------------
(* String literals of the source *)

severe == <<"s", "e", "v", "e", "r", "e">>
major == <<"m", "a", "j", "o", "r">>
contraindicated == <<"c", "o", "n", "t", "r", "a", "i", "n", "d", "i", "c", "a", "t", "e", "d">>
moderate == <<"m", "o", "d", "e", "r", "a", "t", "e">>
Severe == <<"S", "e", "v", "e", "r", "e">>
Moderate == <<"M", "o", "d", "e", "r", "a", "t", "e">>
MLAIMerged == <<"M", "L", "+", "A", "I", " ", "M", "e", "r", "g", "e", "d">>
AIAnalysis == <<"A", "I", " ", "A", "n", "a", "l", "y", "s", "i", "s">>
veryHigh == <<"v", "e", "r", "y", " ", "h", "i", "g", "h">>
critical == <<"c", "r", "i", "t", "i", "c", "a", "l">>
high == <<"h", "i", "g", "h">>
GenericError == <<"F", "a", "i", "l", "e", "d", " ", "t", "o", " ", "g", "e", "t", " ",
                  "p", "r", "e", "d", "i", "c", "t", "i", "o", "n", ".", " ",
                  "E", "n", "s", "u", "r", "e", " ", "b", "a", "c", "k", "e", "n", "d", " ",
                  "i", "s", " ", "r", "u", "n", "n", "i", "n", "g", ".">>
Male == <<"M", "a", "l", "e">>
Female == <<"F", "e", "m", "a", "l", "e">>

----------------------------------------------------------------------------
(* PredictionResult.jsx: the classification helpers *)

\* getSeverityColor comparing the severity as written, without toLowerCase
getSeverityColorExact(severity) ==
    LET severityText == String(Or(severity, Str(<<>>)))
    IN  IF severityText = severe \/ severityText = major \/ severityText = contraindicated
        THEN "text-red-300 bg-red-500/20 border-red-500/30"
        ELSE IF severityText = moderate
        THEN "text-amber-300 bg-amber-500/20 border-amber-500/30"
        ELSE "text-emerald-300 bg-emerald-500/20 border-emerald-500/30"

getSeverityColor(severity) ==
    LET severityLower == toLowerCase(String(Or(severity, Str(<<>>))))
    IN  IF severityLower = severe \/ severityLower = major \/ severityLower = contraindicated
        THEN "text-red-300 bg-red-500/20 border-red-500/30"
        ELSE IF severityLower = moderate
        THEN "text-amber-300 bg-amber-500/20 border-amber-500/30"
        ELSE "text-emerald-300 bg-emerald-500/20 border-emerald-500/30"

\* getSeverityIcon with the warning check ahead of the critical check
getSeverityIconWarningFirst(severity, probability) ==
    LET severityLower == toLowerCase(String(Or(severity, Str(<<>>))))
    IN  IF severityLower = moderate \/ GreaterThan(probability, 50)
        THEN "AlertTriangle"
        ELSE IF severityLower = severe /\ GreaterThan(probability, 20)
        THEN "AlertOctagon"
        ELSE "Info"

getSeverityIcon(severity, probability) ==
    LET severityLower == toLowerCase(String(Or(severity, Str(<<>>))))
    IN  IF severityLower = severe /\ GreaterThan(probability, 20)
        THEN "AlertOctagon"
        ELSE IF severityLower = moderate \/ GreaterThan(probability, 50)
        THEN "AlertTriangle"
        ELSE "Info"

\* getSourceBadge matching the source in any letter case
getSourceBadgeAnyCase(source) ==
    LET sourceLower == toLowerCase(String(Or(source, Str(<<>>))))
    IN  IF sourceLower = toLowerCase(MLAIMerged) THEN "Merged"
        ELSE IF sourceLower = toLowerCase(AIAnalysis) THEN "AI"
        ELSE "DB"

getSourceBadge(source) ==
    IF source = Str(MLAIMerged) THEN "Merged"
    ELSE IF source = Str(AIAnalysis) THEN "AI"
    ELSE "DB"

\* getRiskLevelColor conflated with the three-way severity table
getRiskLevelColorThreeWay(level) == getSeverityColor(level)

getRiskLevelColor(level) ==
    LET levelLower == toLowerCase(String(Or(level, Str(<<>>))))
    IN  IF levelLower = veryHigh \/ levelLower = critical
        THEN "text-red-300 bg-red-500/30 border-red-500/40"
        ELSE IF levelLower = high THEN "text-red-300 bg-red-500/20 border-red-500/30"
        ELSE IF levelLower = moderate THEN "text-amber-300 bg-amber-500/20 border-amber-500/30"
        ELSE "text-emerald-300 bg-emerald-500/20 border-emerald-500/30"

\* isHighRisk with the probability threshold inclusive (>= 70)
isHighRiskInclusive(item) ==
    (item.severity = Str(Severe) /\ GreaterThan(item.probability, 20))
        \/ GreaterThan(item.probability, 69)

isHighRisk(item) ==
    (item.severity = Str(Severe) /\ GreaterThan(item.probability, 20))
        \/ GreaterThan(item.probability, 70)

isMediumRisk(item) ==
    GreaterThan(item.probability, 40) \/ item.severity = Str(Moderate)

\* className of a side-effect card
itemClassName(item) ==
    IF isHighRisk(item) THEN "bg-red-500/15 border-red-500/30"
    ELSE IF isMediumRisk(item) THEN "bg-amber-500/10 border-amber-500/20"
    ELSE "bg-white/5 border-white/10"

----------------------------------------------------------------------------
(* PredictionResult.jsx: the component *)

\* a.slice(0, n) that forgets to cut
SliceAll(a, n) == a

\* a.slice(0, n)
Slice(a, n) == SubSeq(a, 1, IF Len(a) < n THEN Len(a) ELSE n)

\* a.join(sep) for an array of strings, as characters
RECURSIVE Join(_, _)
Join(a, sep) ==
    IF a = <<>> THEN <<>>
    ELSE IF Len(a) = 1 THEN String(a[1])
    ELSE String(a[1]) \o sep \o Join(Tail(a), sep)

\* factor.replace('_', ' '): only the first underscore is replaced
replaceFirstUnderscore(s) ==
    [i \in 1..Len(s) |-> IF s[i] = "_" /\ (\A j \in 1..(i - 1) : s[j] # "_") THEN " " ELSE s[i]]

\* factor.replace(/_/g, ' ')
replaceUnderscores(s) == [i \in 1..Len(s) |-> IF s[i] = "_" THEN " " ELSE s[i]]

\* one entry of the Drug Interactions block
interactionEntry(inter) ==
    [ drugs |-> IF inter.drugs.t \in {"undefined", "null"}
                THEN Undefined
                ELSE Str(Join(inter.drugs.v, <<" ", "+", " ">>)),
      aiTag |-> inter.source = Str(AIAnalysis),
      severityClass |-> getSeverityColor(inter.severity),
      severity |-> inter.severity,
      warning |-> inter.warning ]

\* one side-effect card
sideEffectCard(item) ==
    [ className |-> itemClassName(item),
      icon |-> getSeverityIcon(item.severity, item.probability),
      side_effect |-> item.side_effect,
      severityClass |-> getSeverityColor(item.severity),
      severity |-> item.severity,
      badge |-> getSourceBadge(item.source),
      probability |-> item.probability ]

\* a Monitoring line that shows m.parameter only
monitoringLineParameterOnly(m) == IF m.t = "object" THEN m.parameter ELSE Undefined

\* one line of the Monitoring list: m.parameter || m
monitoringLine(m) == IF m.t = "object" THEN Or(m.parameter, m) ELSE m

\* the AI Clinical Analysis panel
aiPanel(aiAnalysis) ==
    [ riskAssessment |->
        IF Truthy(aiAnalysis.overall_risk_assessment)
        THEN [ shown |-> TRUE,
               className |-> getRiskLevelColor(aiAnalysis.overall_risk_assessment.risk_level),
               risk_level |-> aiAnalysis.overall_risk_assessment.risk_level ]
        ELSE [ shown |-> FALSE ],
      contraindications |->
        IF Truthy(aiAnalysis.contraindications)
        THEN [ shown |-> TRUE,
               lines |-> Slice(Or(aiAnalysis.contraindications.absolute, Arr(<<>>)).v, 3) ]
        ELSE [ shown |-> FALSE ],
      monitoring |->
        IF Truthy(aiAnalysis.monitoring_parameters)
            /\ GreaterThan(LengthOf(aiAnalysis.monitoring_parameters), 0)
        THEN [ shown |-> TRUE,
               lines |-> LET shownParams == Slice(aiAnalysis.monitoring_parameters.v, 3)
                         IN  [i \in 1..Len(shownParams) |-> monitoringLine(shownParams[i])] ]
        ELSE [ shown |-> FALSE ] ]

\* the guard without the length test
rendersNothingWhenAbsent(results) == ~Truthy(results)

\* if (!results || results.length === 0) return null
rendersNothing(results) == ~Truthy(results) \/ LengthOf(results) = Num(0)

\* React refuses a plain object as a child of an element: rendering {x} throws
childThrows(x) == x.t = "object"

\* results.map(item => ...) throws: results has no map, or an item is null or
\* undefined (item.severity is read), or a rendered field is an object
cardsThrow(results) ==
    \/ results.t # "array"
    \/ \E i \in 1..Len(results.v) :
            LET item == results.v[i]
            IN  \/ item.t \in {"undefined", "null"}
                \/ item.t = "object"
                    /\ (childThrows(item.side_effect) \/ childThrows(item.severity)
                            \/ childThrows(item.probability))

\* the Drug Interactions block throws: interactions.slice(0, 5).map is not a
\* function, or one of the first five entries is null or undefined
\* (inter.drugs is read), has drugs without a join, or has an object to render
interactionsThrow(interactions) ==
    /\ Truthy(interactions) /\ GreaterThan(LengthOf(interactions), 0)
    /\ \/ interactions.t # "array"
       \/ \E i \in 1..Len(Slice(interactions.v, 5)) :
            LET inter == interactions.v[i]
            IN  \/ inter.t \in {"undefined", "null"}
                \/ inter.t = "object"
                    /\ (inter.drugs.t \notin {"undefined", "null", "array"}
                            \/ childThrows(inter.severity) \/ childThrows(inter.warning))

\* the Risk Factors block throws: userRiskFactors.map is not a function, or a
\* factor has no replace method (it is not a string)
riskFactorsThrow(userRiskFactors) ==
    /\ Truthy(userRiskFactors) /\ GreaterThan(LengthOf(userRiskFactors), 0)
    /\ \/ userRiskFactors.t # "array"
       \/ \E i \in 1..Len(userRiskFactors.v) : userRiskFactors.v[i].t # "string"

\* the Black Box Warnings block throws
blackBoxThrows(aiAnalysis) ==
    /\ Truthy(aiAnalysis) /\ Truthy(aiAnalysis.black_box_warnings)
    /\ GreaterThan(LengthOf(aiAnalysis.black_box_warnings), 0)
    /\ \/ aiAnalysis.black_box_warnings.t # "array"
       \/ \E i \in 1..Len(aiAnalysis.black_box_warnings.v) :
            childThrows(aiAnalysis.black_box_warnings.v[i])

\* the Contraindications list throws: (absolute || []).slice(0, 3).map is not
\* a function, or one of the first three entries is an object
contraindicationsThrow(aiAnalysis) ==
    /\ Truthy(aiAnalysis.contraindications)
    /\ LET absolute == Or(aiAnalysis.contraindications.absolute, Arr(<<>>))
       IN  \/ absolute.t # "array"
           \/ \E i \in 1..Len(Slice(absolute.v, 3)) : childThrows(absolute.v[i])

\* the Monitoring list throws: monitoring_parameters.slice(0, 3).map is not a
\* function, or one of the first three entries is null or undefined
\* (m.parameter is read), or m.parameter || m is an object
monitoringThrows(aiAnalysis) ==
    /\ Truthy(aiAnalysis.monitoring_parameters)
    /\ GreaterThan(LengthOf(aiAnalysis.monitoring_parameters), 0)
    /\ \/ aiAnalysis.monitoring_parameters.t # "array"
       \/ \E i \in 1..Len(Slice(aiAnalysis.monitoring_parameters.v, 3)) :
            LET m == aiAnalysis.monitoring_parameters.v[i]
            IN  m.t \in {"undefined", "null"} \/ childThrows(monitoringLine(m))

\* rendering PredictionResult past its guard ends in a thrown error
renderThrows(results, interactions, userRiskFactors, aiAnalysis) ==
    \/ cardsThrow(results)
    \/ interactionsThrow(interactions)
    \/ riskFactorsThrow(userRiskFactors)
    \/ blackBoxThrows(aiAnalysis)
    \/ Truthy(aiAnalysis)
        /\ (\/ Truthy(aiAnalysis.overall_risk_assessment)
                /\ childThrows(aiAnalysis.overall_risk_assessment.risk_level)
            \/ contraindicationsThrow(aiAnalysis)
            \/ monitoringThrows(aiAnalysis))

PredictionResult(results, interactions, personalized, userRiskFactors, aiAnalysis, aiEnhanced) ==
    IF rendersNothing(results) THEN [ kind |-> "null" ]
    ELSE IF renderThrows(results, interactions, userRiskFactors, aiAnalysis)
    THEN [ kind |-> "throw" ]
    ELSE
    [ kind |-> "element",
      personalizedBadge |-> Truthy(personalized),
      aiEnhancedBadge |-> Truthy(aiEnhanced),
      blackBox |->
        IF Truthy(aiAnalysis) /\ Truthy(aiAnalysis.black_box_warnings)
            /\ GreaterThan(LengthOf(aiAnalysis.black_box_warnings), 0)
        THEN [ shown |-> TRUE, lines |-> aiAnalysis.black_box_warnings.v ]
        ELSE [ shown |-> FALSE ],
      interactions |->
        IF Truthy(interactions) /\ GreaterThan(LengthOf(interactions), 0)
        THEN [ shown |-> TRUE,
               count |-> LengthOf(interactions),
               entries |-> LET shownInter == Slice(interactions.v, 5)
                           IN  [i \in 1..Len(shownInter) |-> interactionEntry(shownInter[i])] ]
        ELSE [ shown |-> FALSE ],
      riskFactors |->
        IF Truthy(userRiskFactors) /\ GreaterThan(LengthOf(userRiskFactors), 0)
        THEN [ shown |-> TRUE,
               chips |-> [i \in 1..Len(userRiskFactors.v) |->
                            Str(replaceUnderscores(userRiskFactors.v[i].v))] ]
        ELSE [ shown |-> FALSE ],
      cards |-> [i \in 1..Len(results.v) |-> sideEffectCard(results.v[i])],
      aiPanel |-> IF Truthy(aiAnalysis)
                  THEN [ shown |-> TRUE, panel |-> aiPanel(aiAnalysis) ]
                  ELSE [ shown |-> FALSE ] ]

----------------------------------------------------------------------------
(* DrugForm.jsx *)

MEDICAL_CONDITIONS ==
    << Str(<<"D", "i", "a", "b", "e", "t", "e", "s">>),
       Str(<<"H", "e", "a", "r", "t", " ", "D", "i", "s", "e", "a", "s", "e">>),
       Str(<<"K", "i", "d", "n", "e", "y", " ", "D", "i", "s", "e", "a", "s", "e">>),
       Str(<<"L", "i", "v", "e", "r", " ", "D", "i", "s", "e", "a", "s", "e">>),
       Str(<<"A", "s", "t", "h", "m", "a">>),
       Str(<<"C", "O", "P", "D">>),
       Str(<<"H", "y", "p", "e", "r", "t", "e", "n", "s", "i", "o", "n">>),
       Str(<<"D", "e", "p", "r", "e", "s", "s", "i", "o", "n">>),
       Str(<<"A", "n", "x", "i", "e", "t", "y">>),
       Str(<<"S", "e", "i", "z", "u", "r", "e", "s">>),
       Str(<<"B", "l", "e", "e", "d", "i", "n", "g", " ", "D", "i", "s", "o", "r", "d", "e", "r">>),
       Str(<<"S", "t", "o", "m", "a", "c", "h", " ", "U", "l", "c", "e", "r">>),
       Str(<<"G", "E", "R", "D">>),
       Str(<<"O", "s", "t", "e", "o", "p", "o", "r", "o", "s", "i", "s">>),
       Str(<<"G", "l", "a", "u", "c", "o", "m", "a">>),
       Str(<<"P", "r", "e", "g", "n", "a", "n", "c", "y">>) >>

LIFESTYLE_FACTORS ==
    << Str(<<"A", "l", "c", "o", "h", "o", "l", " ", "U", "s", "e">>),
       Str(<<"S", "m", "o", "k", "i", "n", "g">>) >>

IsDigit(c) == c \in DigitSet
IsSpace(c) == c = " "

\* length of the longest prefix of s made of decimal digits
DigitPrefixLen(s) ==
    CHOOSE n \in 0..Len(s) :
        /\ \A i \in 1..n : IsDigit(s[i])
        /\ (n = Len(s) \/ ~IsDigit(s[n + 1]))

RECURSIVE trimStart(_)
trimStart(s) == IF s # <<>> /\ IsSpace(s[1]) THEN trimStart(Tail(s)) ELSE s

RECURSIVE trimEnd(_)
trimEnd(s) == IF s # <<>> /\ IsSpace(s[Len(s)]) THEN trimEnd(SubSeq(s, 1, Len(s) - 1)) ELSE s

\* String.prototype.trim
trim(s) == trimEnd(trimStart(s))

\* s without a leading sign
Unsigned(s) == IF s # <<>> /\ s[1] \in {"+", "-"} THEN Tail(s) ELSE s
Sign(s) == IF s # <<>> /\ s[1] = "-" THEN -1 ELSE 1

\* parseInt(str), radix 10: leading white space, a sign, the longest run of digits
parseInt(str) ==
    LET s == Unsigned(trimStart(str.v))
        n == DigitPrefixLen(s)
    IN  IF n = 0 THEN NaN
        ELSE Num(Sign(trimStart(str.v)) * DigitsValue(SubSeq(s, 1, n)))

RECURSIVE Pow10(_)
Pow10(k) == IF k = 0 THEN 1 ELSE 10 * Pow10(k - 1)

\* the number m / 10^k, with k as small as possible
RECURSIVE Scaled(_, _)
Scaled(m, k) ==
    IF k = 0 \/ m = 0 THEN Num(m)
    ELSE IF m % 10 = 0 THEN Scaled(m \div 10, k - 1)
    ELSE [t |-> "number", v |-> m, scale |-> k]

\* parseFloat(str): leading white space, a sign, digits, a fraction, an exponent
parseFloat(str) ==
    LET s == Unsigned(trimStart(str.v))
        intLen == DigitPrefixLen(s)
        afterInt == SubSeq(s, intLen + 1, Len(s))
        fracLen == IF afterInt # <<>> /\ afterInt[1] = "."
                   THEN DigitPrefixLen(Tail(afterInt)) ELSE 0
        afterFrac == IF afterInt # <<>> /\ afterInt[1] = "." /\ (intLen > 0 \/ fracLen > 0)
                     THEN SubSeq(afterInt, fracLen + 2, Len(afterInt)) ELSE afterInt
        expDigits == IF afterFrac # <<>> /\ afterFrac[1] \in {"e", "E"}
                     THEN Unsigned(Tail(afterFrac)) ELSE <<>>
        expLen == DigitPrefixLen(expDigits)
        exponent == IF expLen = 0 THEN 0
                    ELSE Sign(Tail(afterFrac)) * DigitsValue(SubSeq(expDigits, 1, expLen))
        mantissa == DigitsValue(SubSeq(s, 1, intLen) \o SubSeq(afterInt, 2, fracLen + 1))
        power == exponent - fracLen
    IN  IF intLen = 0 /\ fracLen = 0 THEN NaN
        ELSE IF power >= 0 THEN Num(Sign(trimStart(str.v)) * mantissa * Pow10(power))
        ELSE Scaled(Sign(trimStart(str.v)) * mantissa, -power)

\* s.split(','): the pieces of s between commas
RECURSIVE split(_)
split(s) ==
    IF \E i \in 1..Len(s) : s[i] = ","
    THEN LET i == CHOOSE j \in 1..Len(s) : s[j] = "," /\ \A k \in 1..(j - 1) : s[k] # ","
         IN  <<SubSeq(s, 1, i - 1)>> \o split(SubSeq(s, i + 1, Len(s)))
    ELSE <<s>>

\* the list without the trim: text.split(',').filter(m => m)
splitListUntrimmed(text) ==
    Arr(SelectSeq([i \in 1..Len(split(text.v)) |-> Str(split(text.v)[i])], Truthy))

\* text.split(',').map(m => m.trim()).filter(m => m)
splitList(text) ==
    LET trimmed == [i \in 1..Len(split(text.v)) |-> Str(trim(split(text.v)[i]))]
    IN  Arr(SelectSeq(trimmed, Truthy))

\* the payload handleSubmit builds from the form state
payload ==
    [ t |-> "object",
      drug_name |-> formData.drug_name,
      age |-> IF Truthy(formData.age) THEN parseInt(formData.age) ELSE Null,
      gender |-> formData.gender,
      weight |-> IF Truthy(formData.weight) THEN parseFloat(formData.weight) ELSE Null,
      dosage |-> IF Truthy(formData.dosage) THEN parseInt(formData.dosage) ELSE Null,
      duration |-> IF Truthy(formData.duration) THEN parseInt(formData.duration) ELSE Null,
      medical_conditions |-> IF Len(selectedConditions) > 0 THEN Arr(selectedConditions) ELSE Null,
      current_medications |-> IF Truthy(currentMedications) THEN splitList(currentMedications) ELSE Null,
      allergies |-> IF Truthy(allergies) THEN splitList(allergies) ELSE Null,
      lifestyle |-> IF Len(lifestyle) > 0 THEN Arr(lifestyle) ELSE Null ]

\* an updater that selects and never deselects
toggledNeverRemoves(prev, x) ==
    IF \E i \in 1..Len(prev) : prev[i] = x THEN prev ELSE Append(prev, x)

\* prev.includes(x) ? prev.filter(c => c !== x) : [...prev, x]
toggled(prev, x) ==
    IF \E i \in 1..Len(prev) : prev[i] = x
    THEN SelectSeq(prev, LAMBDA c : c # x)
    ELSE Append(prev, x)

\* DrugForm whose submit button ignores isLoading
DrugFormNeverDisabled ==
    [ mounted |-> TRUE,
      submitDisabled |-> FALSE,
      drugNameMissing |-> formData.drug_name = Str(<<>>),
      healthProfileOpen |-> advancedOpen ]

\* what DrugForm renders that decides which events it can receive
DrugForm ==
    [ mounted |-> TRUE,
      submitDisabled |-> isLoading,
      drugNameMissing |-> formData.drug_name = Str(<<>>),
      healthProfileOpen |-> advancedOpen ]

----------------------------------------------------------------------------
(* App.jsx *)

\* what is left of App when the render of PredictionResult throws: no error
\* boundary surrounds it, so React unmounts the whole tree, the form included
Unmounted ==
    [ form |-> [ mounted |-> FALSE ],
      errorBanner |-> [ shown |-> FALSE ],
      resultsFor |-> [ shown |-> FALSE ],
      prediction |-> [ kind |-> "throw" ] ]

\* what App renders: the form, the error banner, the "Results for" line and
\* the PredictionResult component, mounted only while result is set
App ==
    LET prediction == IF Truthy(result)
                      THEN PredictionResult(result.predictions, result.interactions,
                                            result.personalized, result.user_risk_factors,
                                            result.ai_analysis, result.ai_enhanced)
                      ELSE [ kind |-> "unmounted" ]
    IN  IF prediction.kind = "throw" THEN Unmounted
        ELSE
        [ form |-> DrugForm,
          errorBanner |-> IF Truthy(error) THEN [ shown |-> TRUE, text |-> error ]
                          ELSE [ shown |-> FALSE ],
          resultsFor |-> IF Truthy(result) /\ Truthy(result.drug_found)
                         THEN [ shown |-> TRUE, drug |-> result.drug_found,
                                aiEnhanced |-> Truthy(result.ai_enhanced) ]
                         ELSE [ shown |-> FALSE ],
          prediction |-> prediction ]

\* the payload posted as built, without the flag
requestBodyAsBuilt(data) == data

\* { ...data, use_ai_enhancement: true }
requestBody(data) ==
    [f \in DOMAIN data \cup {"use_ai_enhancement"} |->
        IF f = "use_ai_enhancement" THEN Bool(TRUE) ELSE data[f]]

\* err.response?.data?.detail
errorDetail(err) ==
    IF err.response.t # "object" THEN Undefined
    ELSE IF err.response.data.t # "object" THEN Undefined
    ELSE err.response.data.detail

\* a catch block that ignores the detail of the response
errorMessageAlwaysGeneric(err) == Str(GenericError)

\* the message the catch block passes to setError
errorMessage(err) ==
    IF Truthy(errorDetail(err)) THEN errorDetail(err) ELSE Str(GenericError)

----------------------------------------------------------------------------
(* State machine *)

MaxPending == 2

Init ==
    /\ formData = [ age |-> Str(<<>>), gender |-> Str(Male), weight |-> Str(<<>>),
                    dosage |-> Str(<<>>), duration |-> Str(<<>>), drug_name |-> Str(<<>>) ]
    /\ advancedOpen = FALSE
    /\ selectedConditions = <<>>
    /\ currentMedications = Str(<<>>)
    /\ allergies = Str(<<>>)
    /\ lifestyle = <<>>
    /\ toggledOdd = {}
    /\ result = Null
    /\ isLoading = FALSE
    /\ error = Null
    /\ pending = <<>>
    /\ view = App

\* setFormData({ ...formData, [e.target.name]: e.target.value })
handleChange(name, value) ==
    /\ view.form.mounted
    /\ formData' = [formData EXCEPT ![name] = value]
    /\ UNCHANGED <<advancedOpen, selectedConditions, currentMedications, allergies, lifestyle>>
    /\ UNCHANGED toggledOdd
    /\ UNCHANGED <<appVars, pending>>
    /\ view' = App'

\* onClick={() => setAdvancedOpen(!advancedOpen)}
toggleAdvanced ==
    /\ view.form.mounted
    /\ advancedOpen' = ~advancedOpen
    /\ UNCHANGED <<formData, selectedConditions, currentMedications, allergies, lifestyle>>
    /\ UNCHANGED toggledOdd
    /\ UNCHANGED <<appVars, pending>>
    /\ view' = App'

\* one more click on the toggle button of x
clicked(x) == IF x \in toggledOdd THEN toggledOdd \ {x} ELSE toggledOdd \cup {x}

toggleCondition(condition) ==
    /\ view.form.mounted /\ view.form.healthProfileOpen
    /\ selectedConditions' = toggled(selectedConditions, condition)
    /\ toggledOdd' = clicked(condition)
    /\ UNCHANGED <<formData, advancedOpen, currentMedications, allergies, lifestyle>>
    /\ UNCHANGED <<appVars, pending>>
    /\ view' = App'

toggleLifestyle(factor) ==
    /\ view.form.mounted /\ view.form.healthProfileOpen
    /\ lifestyle' = toggled(lifestyle, factor)
    /\ toggledOdd' = clicked(factor)
    /\ UNCHANGED <<formData, advancedOpen, selectedConditions, currentMedications, allergies>>
    /\ UNCHANGED <<appVars, pending>>
    /\ view' = App'

\* onChange={(e) => setCurrentMedications(e.target.value)}
changeCurrentMedications(value) ==
    /\ view.form.mounted /\ view.form.healthProfileOpen
    /\ currentMedications' = value
    /\ UNCHANGED <<formData, advancedOpen, selectedConditions, allergies, lifestyle>>
    /\ UNCHANGED toggledOdd
    /\ UNCHANGED <<appVars, pending>>
    /\ view' = App'

\* onChange={(e) => setAllergies(e.target.value)}
changeAllergies(value) ==
    /\ view.form.mounted /\ view.form.healthProfileOpen
    /\ allergies' = value
    /\ UNCHANGED <<formData, advancedOpen, selectedConditions, currentMedications, lifestyle>>
    /\ UNCHANGED toggledOdd
    /\ UNCHANGED <<appVars, pending>>
    /\ view' = App'

\* handlePredict without setError(null)
handlePredictKeepsError(data) ==
    /\ isLoading' = TRUE
    /\ error' = error
    /\ result' = Null
    /\ pending' = Append(pending, requestBody(data))

\* handlePredict without setResult(null)
handlePredictKeepsResult(data) ==
    /\ isLoading' = TRUE
    /\ error' = Null
    /\ result' = result
    /\ pending' = Append(pending, requestBody(data))

\* handlePredict up to its await: the three state resets and the axios.post
handlePredict(data) ==
    /\ isLoading' = TRUE
    /\ error' = Null
    /\ result' = Null
    /\ pending' = Append(pending, requestBody(data))

\* a submit button that can be pressed while a request is loading
canSubmitWhileLoading == view.form.mounted /\ ~view.form.drugNameMissing

\* the submit button can be pressed (it is there and not disabled) and the required
\* drug name is filled in, so the browser dispatches the form's submit event
canSubmit == view.form.mounted /\ ~view.form.submitDisabled /\ ~view.form.drugNameMissing

\* handleSubmit: build the payload and call onPredict
handleSubmit ==
    /\ canSubmit
    /\ Len(pending) < MaxPending
    /\ handlePredict(payload)
    /\ UNCHANGED formVars
    /\ view' = App'

Without(seq, i) == SubSeq(seq, 1, i - 1) \o SubSeq(seq, i + 1, Len(seq))

\* the i-th outstanding request succeeds: setResult(response.data), then finally
requestResolves(i, response) ==
    /\ i \in 1..Len(pending)
    /\ result' = response.data
    /\ isLoading' = FALSE
    /\ pending' = Without(pending, i)
    /\ UNCHANGED <<error, formVars>>
    /\ view' = App'

\* a failing request without the finally block: isLoading is left as it is
requestRejectsWithoutFinally(i, err) ==
    /\ i \in 1..Len(pending)
    /\ error' = errorMessage(err)
    /\ isLoading' = isLoading
    /\ pending' = Without(pending, i)
    /\ UNCHANGED <<result, formVars>>
    /\ view' = App'

\* the i-th outstanding request fails: the catch block, then finally
requestRejects(i, err) ==
    /\ i \in 1..Len(pending)
    /\ error' = errorMessage(err)
    /\ isLoading' = FALSE
    /\ pending' = Without(pending, i)
    /\ UNCHANGED <<result, formVars>>
    /\ view' = App'

----------------------------------------------------------------------------
(* Inputs: what the user types and what the prediction service answers *)

Warfarin == <<"W", "a", "r", "f", "a", "r", "i", "n">>
Aspirin == <<"A", "s", "p", "i", "r", "i", "n">>
Ibuprofen == <<"I", "b", "u", "p", "r", "o", "f", "e", "n">>
Nausea == <<"N", "a", "u", "s", "e", "a">>
Bleeding == <<"B", "l", "e", "e", "d", "i", "n", "g">>
Mild == <<"M", "i", "l", "d">>
Major == <<"M", "a", "j", "o", "r">>
Database == <<"D", "a", "t", "a", "b", "a", "s", "e">>
heart_disease == <<"h", "e", "a", "r", "t", "_", "d", "i", "s", "e", "a", "s", "e">>
DrugNotFound == <<"D", "r", "u", "g", " ", "n", "o", "t", " ", "f", "o", "u", "n", "d">>
BleedingRisk ==
    <<"I", "n", "c", "r", "e", "a", "s", "e", "d", " ", "b", "l", "e", "e", "d", "i", "n", "g", " ", "r", "i", "s", "k">>
INR == <<"I", "N", "R">>
ActiveBleeding == <<"A", "c", "t", "i", "v", "e", " ", "b", "l", "e", "e", "d", "i", "n", "g">>
Pregnancy == <<"P", "r", "e", "g", "n", "a", "n", "c", "y">>
BoxedWarning ==
    <<"M", "a", "y", " ", "c", "a", "u", "s", "e", " ", "m", "a", "j", "o", "r", " ", "o", "r", " ",
      "f", "a", "t", "a", "l", " ", "b", "l", "e", "e", "d", "i", "n", "g">>
Low == <<"L", "o", "w">>

\* w with every letter in either case
toUpperChar(c) == IF c \in LowerLetters THEN UpperOf[c] ELSE c
RECURSIVE CaseVariants(_)
CaseVariants(w) ==
    IF w = <<>> THEN {<<>>}
    ELSE {<<c>> \o rest : c \in {w[1], toUpperChar(w[1])}, rest \in CaseVariants(Tail(w))}

\* all sequences over S of length at most n
RECURSIVE SeqsUpTo(_, _)
SeqsUpTo(S, n) ==
    IF n = 0 THEN {<<>>}
    ELSE SeqsUpTo(S, n - 1) \cup {Append(q, x) : q \in {r \in SeqsUpTo(S, n - 1) : Len(r) = n - 1}, x \in S}

SideEffect(name, severity, probability, source) ==
    [ t |-> "object", side_effect |-> Str(name), severity |-> severity,
      probability |-> probability, source |-> source ]

Interaction(other, severity, source) ==
    [ t |-> "object", drugs |-> Arr(<<Str(Warfarin), Str(other)>>), severity |-> severity,
      warning |-> Str(BleedingRisk), source |-> source ]

Analysis(warnings, assessment, absolute, monitoring) ==
    [ t |-> "object", black_box_warnings |-> warnings, overall_risk_assessment |-> assessment,
      contraindications |-> absolute, monitoring_parameters |-> monitoring ]

Assessment(level) == [ t |-> "object", risk_level |-> level ]

\* a successful response of POST /predict
Response(drug, predictions, interactions, factors, analysis) ==
    [ t |-> "object",
      data |-> [ t |-> "object", drug_found |-> drug, ai_enhanced |-> Bool(Truthy(analysis)),
                 predictions |-> predictions, interactions |-> interactions,
                 personalized |-> Bool(Truthy(factors)), user_risk_factors |-> factors,
                 ai_analysis |-> analysis ] ]

\* a failed request: no response at all, a response without a body, a body
\* without detail, a body with a detail
Failure(response) == [ t |-> "object", response |-> response ]
HttpError(body) == [ t |-> "object", data |-> body ]
Failures ==
    { Failure(Undefined),
      Failure(HttpError(Undefined)),
      Failure(HttpError([ t |-> "object", detail |-> Undefined ])),
      Failure(HttpError([ t |-> "object", detail |-> Str(<<>>) ])),
      Failure(HttpError([ t |-> "object", detail |-> Str(DrugNotFound) ])) }

BaseItem == SideEffect(Nausea, Str(Mild), Num(10), Str(Database))
Interaction1 == Interaction(Aspirin, Str(Major), Str(Database))
Interaction2 == Interaction(Ibuprofen, Str(Moderate), Str(AIAnalysis))
FullAnalysis ==
    Analysis(Arr(<<Str(BoxedWarning)>>), Assessment(Str(high)),
             [ t |-> "object", absolute |-> Arr(<<Str(ActiveBleeding), Str(Pregnancy)>>) ],
             Arr(<<[ t |-> "object", parameter |-> Str(INR) ], Str(Bleeding)>>))

\* bounds of the inputs
NToggle == 2
MaxProbability == 100
MaxInteractions == 6
MaxListed == 4

\* Spec: the fields the user edits and the answers of the service
FieldEdits ==
    { <<"drug_name", Str(<<>>)>>, <<"drug_name", Str(Warfarin)>>, <<"drug_name", Str(Aspirin)>>,
      <<"age", Str(<<>>)>>, <<"age", Str(<<"7", "0">>)>> }

ResponsesTo(body) ==
    { Response(body.drug_name,
               Arr(<<SideEffect(Bleeding, Str(Severe), Num(25), Str(MLAIMerged)), BaseItem>>),
               Arr(<<Interaction1>>), Arr(<<Str(heart_disease)>>), FullAnalysis),
      Response(body.drug_name, Arr(<<BaseItem>>), Arr(<<>>), Arr(<<>>), Null),
      Response(body.drug_name, Arr(<<>>), Arr(<<Interaction1>>), Arr(<<>>), Null) }

\* SpecRender: the payloads PredictionResult is rendered with
SeverityInputs ==
    {Str(s) : s \in CaseVariants(severe) \cup CaseVariants(major)}
    \cup {Str(s) : s \in {
        moderate,
        Moderate,
        <<"M", "O", "D", "E", "R", "A", "T", "E">>,
        <<"m", "o", "d", "e", "R", "a", "t", "e">> }}
    \cup {Str(s) : s \in {
        contraindicated,
        <<"C", "o", "n", "t", "r", "a", "i", "n", "d", "i", "c", "a", "t", "e", "d">>,
        <<"C", "O", "N", "T", "R", "A", "I", "N", "D", "I", "C", "A", "T", "E", "D">>,
        <<"c", "o", "n", "t", "r", "a", "I", "n", "d", "i", "c", "a", "t", "e", "d">> }}
    \cup {Str(s) : s \in {
        Mild,
        <<>>,
        <<"m", "i", "l", "d">>,
        <<"S", "e", "v", "e", "r", "e", " ">>,
        <<" ", "s", "e", "v", "e", "r", "e">>,
        <<"s", "e", "v", "e", "r">>,
        <<"s", "e", "v", "e", "r", "e", "l", "y">>,
        <<"M", "i", "n", "o", "r">>,
        <<"U", "n", "k", "n", "o", "w", "n">>,
        <<"H", "i", "g", "h">> }}
    \cup {Undefined, Null}

ProbabilityInputs == {Num(n) : n \in 0..MaxProbability} \cup {Undefined, Null}

SourceInputs ==
    {Str(s) : s \in {
        MLAIMerged,
        AIAnalysis,
        Database,
        <<>>,
        <<"m", "l", "+", "a", "i", " ", "m", "e", "r", "g", "e", "d">>,
        <<"M", "L", "+", "A", "I", " ", "m", "e", "r", "g", "e", "d">>,
        <<"M", "L", "+", "A", "I", " ", "M", "e", "r", "g", "e", "d", " ">>,
        <<"M", "L", " ", "+", " ", "A", "I", " ", "M", "e", "r", "g", "e", "d">>,
        <<"M", "e", "r", "g", "e", "d">>,
        <<"A", "I", " ", "a", "n", "a", "l", "y", "s", "i", "s">>,
        <<"a", "i", " ", "a", "n", "a", "l", "y", "s", "i", "s">>,
        <<"A", "I">>,
        <<"d", "a", "t", "a", "b", "a", "s", "e">>,
        <<"F", "D", "A", " ", "L", "a", "b", "e", "l">> }}
    \cup {Undefined, Null}

RiskLevelInputs ==
    {Str(s) : s \in CaseVariants(veryHigh) \cup CaseVariants(high)}
    \cup {Str(s) : s \in {
        critical,
        <<"C", "r", "i", "t", "i", "c", "a", "l">>,
        <<"C", "R", "I", "T", "I", "C", "A", "L">>,
        <<"c", "r", "i", "T", "i", "c", "a", "l">> }}
    \cup {Str(s) : s \in { moderate, Moderate, <<"M", "O", "D", "E", "R", "A", "T", "E">> }}
    \cup {Str(s) : s \in {
        Low,
        severe,
        <<>>,
        <<"l", "o", "w">>,
        <<"v", "e", "r", "y", " ", " ", "h", "i", "g", "h">>,
        <<"v", "e", "r", "y", "h", "i", "g", "h">>,
        <<"v", "e", "r", "y", "_", "h", "i", "g", "h">>,
        <<"v", "e", "r", "y", " ", "h", "i", "g", "h", " ">>,
        <<"h", "i", "g", "h", " ", "r", "i", "s", "k">>,
        <<"h", "i", "g", "h", "e", "r">>,
        <<"m", "e", "d", "i", "u", "m">> }}
    \cup {Undefined, Null}

ItemResponses(body) ==
    { Response(body.drug_name, Arr(<<SideEffect(Nausea, severity, probability, Str(Database))>>),
               Arr(<<>>), Arr(<<>>), Null)
        : severity \in SeverityInputs, probability \in ProbabilityInputs }

SourceResponses(body) ==
    { Response(body.drug_name, Arr(<<BaseItem, SideEffect(Bleeding, severity, Num(45), source)>>),
               Arr(<<>>), Arr(<<>>), Null)
        : severity \in {Str(Severe), Str(Mild)}, source \in SourceInputs }

RiskLevelResponses(body) ==
    { Response(body.drug_name, Arr(<<BaseItem>>), Arr(<<>>), Arr(<<>>),
               Analysis(Undefined, Assessment(level), Undefined, Undefined))
        : level \in RiskLevelInputs }

InteractionResponses(body) ==
    { Response(body.drug_name, Arr(<<BaseItem>>), interactions, Arr(<<>>), Null)
        : interactions \in {Arr(q) : q \in SeqsUpTo({Interaction1, Interaction2}, MaxInteractions)}
                           \cup {Undefined, Null} }

EmptyResponses(body) ==
    { Response(body.drug_name, predictions, interactions, factors, analysis)
        : predictions \in {Arr(<<>>), Undefined, Null, Arr(<<BaseItem>>)},
          interactions \in {Undefined, Arr(<<>>), Arr(<<Interaction1>>), Arr(<<Interaction1, Interaction2>>)},
          factors \in {Undefined, Arr(<<>>), Arr(<<Str(heart_disease)>>)},
          analysis \in {Null, Undefined, FullAnalysis} }

\* SpecNumbers: what the number inputs let a form be submitted with (blank or an
\* integer-valued number, their step being 1), and one answer of the service
NumberEdits ==
    { <<"drug_name", Str(Warfarin)>> }
    \cup { <<"age", Str(v)>> : v \in { <<>>, <<"7", "0">>, <<"0">>, <<"-", "5">> } }
    \cup { <<"weight", Str(v)>> : v \in { <<>>, <<"1", "e", "2">>, <<"0">> } }
    \cup { <<"dosage", Str(v)>> : v \in { <<>>, <<"5", "0", "0">> } }
    \cup { <<"duration", Str(v)>> : v \in { <<>>, <<"7">> } }

PlainResponse(body) == Response(body.drug_name, Arr(<<BaseItem>>), Arr(<<>>), Arr(<<>>), Null)

\* SpecLists: what the user types into the two comma-separated inputs
Penicillin == <<"P", "e", "n", "i", "c", "i", "l", "l", "i", "n">>
AspirinIbuprofenText ==
    <<"A", "s", "p", "i", "r", "i", "n", ",", " ", ",", " ", "I", "b", "u", "p", "r", "o", "f", "e", "n">>
MedicationTexts ==
    { <<>>,
      <<" ">>,
      <<",">>,
      <<" ", ",", " ">>,
      Aspirin,
      AspirinIbuprofenText,
      <<" ", "I", "b", "u", "p", "r", "o", "f", "e", "n", " ", ",", "A", "s", "p", "i", "r", "i", "n", ",">>,
      <<",", ",", "A", "s", "p", "i", "r", "i", "n", " ", " ", ",", " ", " ", "I", "b", "u", "p", "r", "o", "f", "e", "n">> }
AllergyTexts ==
    { <<>>,
      <<",", " ", ",">>,
      Penicillin \o <<" ", ",", " ">> \o Aspirin }

chronic_kidney_disease ==
    <<"c", "h", "r", "o", "n", "i", "c", "_", "k", "i", "d", "n", "e", "y", "_", "d", "i", "s", "e", "a", "s", "e">>
RiskFactorTokens ==
    { heart_disease,
      chronic_kidney_disease,
      <<"_", "a", "g", "e", "_", "o", "v", "e", "r", "_", "6", "5", "_">>,
      <<"a", "_", "_", "b">>,
      <<"H", "e", "a", "r", "t", "_", "D", "i", "s", "e", "a", "s", "e">>,
      <<"s", "m", "o", "k", "e", "r">>,
      <<"o", "v", "e", "r", " ", "6", "5">>,
      <<"x", "-", "r", "a", "y", "_", "e", "x", "p", "o", "s", "u", "r", "e">>,
      <<"_">>,
      <<>> }

RiskFactorResponses(body) ==
    { Response(body.drug_name, Arr(<<BaseItem>>), Arr(<<>>), factors, Null)
        : factors \in {Arr(<<Str(token)>>) : token \in RiskFactorTokens}
                      \cup {Arr(<<Str(chronic_kidney_disease), Str(Pregnancy), Str(heart_disease)>>)} }

MonitoringINR == [ t |-> "object", parameter |-> Str(INR) ]

ListResponses(body) ==
    { Response(body.drug_name, Arr(<<BaseItem>>), Arr(<<>>), Arr(<<>>),
               Analysis(Undefined, Undefined, [ t |-> "object", absolute |-> Arr(absolute) ],
                        Undefined))
        : absolute \in SeqsUpTo({Str(ActiveBleeding), Str(Pregnancy)}, MaxListed) }
    \cup
    { Response(body.drug_name, Arr(<<BaseItem>>), Arr(<<>>), Arr(<<>>),
               Analysis(Undefined, Undefined, Undefined, Arr(monitoring)))
        : monitoring \in SeqsUpTo({MonitoringINR, Str(Bleeding)}, MaxListed) }

RenderResponses(body) ==
    ItemResponses(body) \cup SourceResponses(body) \cup RiskLevelResponses(body)
        \cup InteractionResponses(body) \cup EmptyResponses(body)
        \cup RiskFactorResponses(body) \cup ListResponses(body)

\* SpecMalformed: payloads with non-empty predictions whose optional fields
\* are absent or of the wrong type
MalformedPredictions ==
    { Arr(<<BaseItem>>),
      Arr(<<SideEffect(Nausea, Undefined, Undefined, Undefined)>>) }
MalformedRiskFactors ==
    { Undefined,
      Arr(<<Str(heart_disease)>>),
      Arr(<<Num(5)>>),
      Arr(<<Str(heart_disease), Null>>),
      Str(heart_disease) }
MalformedInteractions ==
    { Arr(<<>>),
      Arr(<<[Interaction1 EXCEPT !.drugs = Undefined]>>),
      Arr(<<[Interaction1 EXCEPT !.drugs = Str(Aspirin)]>>) }
MalformedContraindications ==
    { Undefined,
      [ t |-> "object", absolute |-> Undefined ],
      [ t |-> "object", absolute |-> Arr(<<Str(Pregnancy)>>) ],
      [ t |-> "object", absolute |-> Str(Pregnancy) ],
      [ t |-> "object", absolute |-> Num(1) ] }
MalformedMonitoring ==
    { Undefined,
      Arr(<<Str(INR)>>),
      Arr(<<Null>>),
      Arr(<<Num(7)>>),
      Arr(<<[ t |-> "object", parameter |-> Undefined ]>>),
      Arr(<<[ t |-> "object", parameter |-> Str(INR) ], Str(Bleeding), Str(Nausea), Null>>),
      Str(INR),
      Num(3),
      [ t |-> "object" ] }

MalformedResponses(body) ==
    { Response(body.drug_name, predictions, interactions, factors, analysis)
        : predictions \in MalformedPredictions,
          interactions \in MalformedInteractions,
          factors \in MalformedRiskFactors,
          analysis \in {Null} \cup { Analysis(Undefined, Undefined, absolute, monitoring)
                                       : absolute \in MalformedContraindications,
                                         monitoring \in MalformedMonitoring } }

----------------------------------------------------------------------------
(* Specifications *)

\* the application: the form is edited and submitted, requests settle
Next ==
    \/ \E e \in FieldEdits : handleChange(e[1], e[2])
    \/ toggleAdvanced
    \/ \E k \in 1..NToggle : toggleCondition(MEDICAL_CONDITIONS[k])
    \/ handleSubmit
    \/ \E i \in 1..Len(pending) : \E response \in ResponsesTo(pending[i]) : requestResolves(i, response)
    \/ \E i \in 1..Len(pending) : \E err \in Failures : requestRejects(i, err)

Spec == Init /\ [][Next]_vars

\* an outstanding request settles: axios.post resolves or rejects
Settles ==
    \/ \E i \in 1..Len(pending) : \E response \in ResponsesTo(pending[i]) : requestResolves(i, response)
    \/ \E i \in 1..Len(pending) : \E err \in Failures : requestRejects(i, err)

\* the application when every HTTP call settles: the text inputs are edited,
\* the form is submitted, and a request in flight is eventually answered
NextSettling ==
    \/ \E e \in FieldEdits : handleChange(e[1], e[2])
    \/ toggleAdvanced
    \/ handleSubmit
    \/ \E i \in 1..Len(pending) : \E response \in ResponsesTo(pending[i]) : requestResolves(i, response)
    \/ \E i \in 1..Len(pending) : \E err \in Failures : requestRejects(i, err)

SpecSettling == Init /\ [][NextSettling]_vars /\ WF_vars(Settles)

\* the presentation: one drug is submitted and the service answers with every
\* payload of RenderResponses
NextRender ==
    \/ handleChange("drug_name", Str(Warfarin))
    \/ handleSubmit
    \/ \E i \in 1..Len(pending) : \E response \in RenderResponses(pending[i]) : requestResolves(i, response)

SpecRender == Init /\ [][NextRender]_vars

\* the numeric fields of the request: the number inputs are edited, the form is
\* submitted and the service answers
NextNumbers ==
    \/ \E e \in NumberEdits : handleChange(e[1], e[2])
    \/ handleSubmit
    \/ \E i \in 1..Len(pending) : requestResolves(i, PlainResponse(pending[i]))

SpecNumbers == Init /\ [][NextNumbers]_vars

\* the list fields of the request: the health profile is opened, the two
\* comma-separated inputs are edited, the form is submitted and the service answers
NextLists ==
    \/ handleChange("drug_name", Str(Warfarin))
    \/ toggleAdvanced
    \/ \E text \in MedicationTexts : changeCurrentMedications(Str(text))
    \/ \E text \in AllergyTexts : changeAllergies(Str(text))
    \/ handleSubmit
    \/ \E i \in 1..Len(pending) : requestResolves(i, PlainResponse(pending[i]))

SpecLists == Init /\ [][NextLists]_vars

\* the toggle sets of the request: the health profile is opened, conditions and
\* lifestyle factors are toggled, the form is submitted and the service answers
NextToggles ==
    \/ handleChange("drug_name", Str(Warfarin))
    \/ toggleAdvanced
    \/ \E k \in 1..NToggle : toggleCondition(MEDICAL_CONDITIONS[k])
    \/ \E k \in 1..Len(LIFESTYLE_FACTORS) : toggleLifestyle(LIFESTYLE_FACTORS[k])
    \/ handleSubmit
    \/ \E i \in 1..Len(pending) : requestResolves(i, PlainResponse(pending[i]))

SpecToggles == Init /\ [][NextToggles]_vars

\* the presentation of malformed payloads: one drug is submitted and the
\* service answers with every payload of MalformedResponses
NextMalformed ==
    \/ handleChange("drug_name", Str(Warfarin))
    \/ handleSubmit
    \/ \E i \in 1..Len(pending) : \E response \in MalformedResponses(pending[i]) : requestResolves(i, response)

SpecMalformed == Init /\ [][NextMalformed]_vars

----------------------------------------------------------------------------
(* Properties of the presentation (SpecRender) *)

\* the payload on display and its side-effect cards
Displayed == Truthy(result) /\ view.prediction.kind = "element"

\* item.probability is a number greater than k
ProbabilityAbove(item, k) == item.probability.t = "number" /\ item.probability.v > k

\* x is a string that differs from the lower-case word w at most in letter case
SameIgnoringCase(x, w) ==
    /\ x.t = "string"
    /\ Len(x.v) = Len(w)
    /\ \A i \in 1..Len(w) : x.v[i] = w[i] \/ x.v[i] = toUpperChar(w[i])

HighClass == "bg-red-500/15 border-red-500/30"
MediumClass == "bg-amber-500/10 border-amber-500/20"
LowClass == "bg-white/5 border-white/10"
CriticalColor == "text-red-300 bg-red-500/20 border-red-500/30"
WarningColor == "text-amber-300 bg-amber-500/20 border-amber-500/30"
NormalColor == "text-emerald-300 bg-emerald-500/20 border-emerald-500/30"
StrongestColor == "text-red-300 bg-red-500/30 border-red-500/40"

\* C1: every side-effect card carries the class of exactly one tier: High iff
\* (severity is 'Severe' and probability > 20) or probability > 70; otherwise
\* Medium iff probability > 40 or severity is 'Moderate'; otherwise Low.  The
\* thresholds are strict, and an item meeting both conditions is High.
C1_RiskTier ==
    Displayed =>
        \A i \in 1..Len(result.predictions.v) :
            LET item == result.predictions.v[i]
                shown == view.prediction.cards[i].className
                highCondition == (item.severity = Str(Severe) /\ ProbabilityAbove(item, 20))
                                    \/ ProbabilityAbove(item, 70)
                mediumCondition == ProbabilityAbove(item, 40) \/ item.severity = Str(Moderate)
            IN  /\ shown \in {HighClass, MediumClass, LowClass}
                /\ shown = HighClass <=> highCondition
                /\ shown = MediumClass <=> (~highCondition /\ mediumCondition)
                /\ shown = LowClass <=> (~highCondition /\ ~mediumCondition)

\* a Moderate item at probability 71 meets both conditions and is shown High
C1_Witness ==
    /\ Displayed
    /\ \E i \in 1..Len(result.predictions.v) :
        /\ result.predictions.v[i].severity = Str(Moderate)
        /\ result.predictions.v[i].probability = Num(71)
        /\ view.prediction.cards[i].className = HighClass

\* the colour tier the claim gives a severity
ClaimedSeverityColor(severity) ==
    IF SameIgnoringCase(severity, severe) \/ SameIgnoringCase(severity, major)
        \/ SameIgnoringCase(severity, contraindicated)
    THEN CriticalColor
    ELSE IF SameIgnoringCase(severity, moderate) THEN WarningColor
    ELSE NormalColor

\* C2: the severity colour of every card and of every interaction entry is
\* Critical when the severity equals 'severe', 'major' or 'contraindicated'
\* in any letter case, Warning when it equals 'moderate', and Normal for
\* every other string and for an absent severity.
C2_SeverityColor ==
    Displayed =>
        /\ \A i \in 1..Len(result.predictions.v) :
            view.prediction.cards[i].severityClass
                = ClaimedSeverityColor(result.predictions.v[i].severity)
        /\ view.prediction.interactions.shown =>
            \A i \in 1..Len(view.prediction.interactions.entries) :
                view.prediction.interactions.entries[i].severityClass
                    = ClaimedSeverityColor(result.interactions.v[i].severity)

\* a severity written in capitals is shown Critical
C2_Witness ==
    /\ Displayed
    /\ \E i \in 1..Len(result.predictions.v) :
        /\ result.predictions.v[i].severity = Str(<<"S", "E", "V", "E", "R", "E">>)
        /\ view.prediction.cards[i].severityClass = CriticalColor

\* C3: the icon of every card is the critical one iff the severity is Severe
\* (in any letter case) and probability > 20; otherwise the warning one iff
\* the severity is Moderate or probability > 50; otherwise the info one.  A
\* Severe item with probability <= 20 never gets the critical icon.
C3_SeverityIcon ==
    Displayed =>
        \A i \in 1..Len(result.predictions.v) :
            LET item == result.predictions.v[i]
                icon == view.prediction.cards[i].icon
                isCritical == SameIgnoringCase(item.severity, severe) /\ ProbabilityAbove(item, 20)
                isWarning == SameIgnoringCase(item.severity, moderate) \/ ProbabilityAbove(item, 50)
            IN  /\ icon \in {"AlertOctagon", "AlertTriangle", "Info"}
                /\ icon = "AlertOctagon" <=> isCritical
                /\ icon = "AlertTriangle" <=> (~isCritical /\ isWarning)
                /\ icon = "Info" <=> (~isCritical /\ ~isWarning)
                /\ (item.severity = Str(Severe) /\ ~ProbabilityAbove(item, 20)) =>
                        icon = (IF ProbabilityAbove(item, 50) THEN "AlertTriangle" ELSE "Info")

\* a Severe item at probability 20 gets the info icon
C3_Witness ==
    /\ Displayed
    /\ \E i \in 1..Len(result.predictions.v) :
        /\ result.predictions.v[i].severity = Str(Severe)
        /\ result.predictions.v[i].probability = Num(20)
        /\ view.prediction.cards[i].icon = "Info"

\* C4: the badge of every card is one of three: the merged badge iff source
\* is exactly 'ML+AI Merged', the AI badge iff it is exactly 'AI Analysis',
\* and the database badge for every other value, absent ones included.
C4_SourceBadge ==
    Displayed =>
        \A i \in 1..Len(result.predictions.v) :
            LET source == result.predictions.v[i].source
                badge == view.prediction.cards[i].badge
            IN  /\ badge \in {"Merged", "AI", "DB"}
                /\ badge = "Merged" <=> (source.t = "string" /\ source.v = MLAIMerged)
                /\ badge = "AI" <=> (source.t = "string" /\ source.v = AIAnalysis)

\* a case variant of a recognised source falls back to the database badge
C4_Witness ==
    /\ Displayed
    /\ \E i \in 1..Len(result.predictions.v) :
        /\ SameIgnoringCase(result.predictions.v[i].source,
                            <<"a", "i", " ", "a", "n", "a", "l", "y", "s", "i", "s">>)
        /\ result.predictions.v[i].source # Str(AIAnalysis)
        /\ view.prediction.cards[i].badge = "DB"

\* the overall assessment on display
AssessmentShown ==
    /\ Displayed
    /\ view.prediction.aiPanel.shown
    /\ view.prediction.aiPanel.panel.riskAssessment.shown

\* C5: the colour of the overall assessment is the strongest critical tier
\* for 'very high' and 'critical', the lighter critical tier for 'high', the
\* warning tier for 'moderate' (each in any letter case) and the normal tier
\* for every other or absent risk_level; the two critical tiers differ.
C5_RiskLevelColor ==
    AssessmentShown =>
        LET level == result.ai_analysis.overall_risk_assessment.risk_level
            color == view.prediction.aiPanel.panel.riskAssessment.className
        IN  /\ color \in {StrongestColor, CriticalColor, WarningColor, NormalColor}
            /\ color = StrongestColor <=>
                    (SameIgnoringCase(level, veryHigh) \/ SameIgnoringCase(level, critical))
            /\ color = CriticalColor <=> SameIgnoringCase(level, high)
            /\ color = WarningColor <=> SameIgnoringCase(level, moderate)
            /\ StrongestColor # CriticalColor

\* 'Very High' is shown in the strongest tier
C5_Witness ==
    /\ AssessmentShown
    /\ result.ai_analysis.overall_risk_assessment.risk_level
            = Str(<<"V", "e", "r", "y", " ", "H", "i", "g", "h">>)
    /\ view.prediction.aiPanel.panel.riskAssessment.className = StrongestColor

\* C6: with an empty or absent predictions sequence PredictionResult renders
\* nothing, whatever the interactions, risk factors and AI analysis are.
C6_NoOutput ==
    (Truthy(result) /\ (result.predictions \in {Undefined, Null} \/ result.predictions = Arr(<<>>)))
        => view.prediction = [ kind |-> "null" ]

\* nothing is rendered although interactions, risk factors, black-box
\* warnings and an AI analysis came with the empty predictions
C6_Witness ==
    /\ Truthy(result)
    /\ result.predictions = Arr(<<>>)
    /\ result.interactions = Arr(<<Interaction1, Interaction2>>)
    /\ result.user_risk_factors = Arr(<<Str(heart_disease)>>)
    /\ result.ai_analysis = FullAnalysis
    /\ view.prediction.kind = "null"

\* C7: with non-empty predictions and N interactions, the entries on display
\* are the first min(N, 5) of the input in input order, and the header, shown
\* whenever there is an entry, counts all N.
C7_InteractionsTruncated ==
    (Displayed /\ result.interactions.t = "array") =>
        LET N == Len(result.interactions.v)
            block == view.prediction.interactions
        IN  /\ block.shown <=> N > 0
            /\ block.shown =>
                /\ block.count = Num(N)
                /\ Len(block.entries) = (IF N < 5 THEN N ELSE 5)
                /\ \A i \in 1..Len(block.entries) :
                    /\ block.entries[i].severity = result.interactions.v[i].severity
                    /\ block.entries[i].warning = result.interactions.v[i].warning
                    /\ block.entries[i].aiTag = (result.interactions.v[i].source = Str(AIAnalysis))
                    /\ block.entries[i].drugs.t = "string"

\* more than five interactions: five on display, all of them counted
C7_Witness ==
    /\ Displayed
    /\ result.interactions.t = "array"
    /\ Len(result.interactions.v) > 5
    /\ view.prediction.interactions.shown
    /\ Len(view.prediction.interactions.entries) = 5
    /\ view.prediction.interactions.count = Num(Len(result.interactions.v))

----------------------------------------------------------------------------
(* Properties of the submission cycle (Spec) *)

\* C8: at most one prediction request is outstanding: no request is started
\* while an earlier one has not settled.
C8_OneOutstanding == Len(pending) <= 1

\* a request is outstanding and the submit button is disabled
C8_Witness == Len(pending) = 1 /\ isLoading /\ view.form.submitDisabled

\* a step in which a request settles
Completion == Len(pending') < Len(pending)

\* C9: whenever no request is loading, result and error are not both set, and
\* every completion leaves exactly one of them set.
C9_ResultOrError ==
    /\ [](~isLoading => ~(Truthy(result) /\ Truthy(error)))
    /\ [][Completion => (~isLoading' /\ (Truthy(result') # Truthy(error')))]_vars

\* a completed submission with the result set and no error
C9_Witness == ~isLoading /\ pending = <<>> /\ Truthy(result) /\ ~Truthy(error)

\* a step in which a request fails
Rejection == \E i \in 1..Len(pending) : \E err \in Failures : requestRejects(i, err)

\* C10: a request that fails leaves error set to one non-empty message and
\* result absent, also when an earlier submission had succeeded.
C10_FailureClearsResult ==
    [][Rejection => (error'.t = "string" /\ error'.v # <<>> /\ result' = Null)]_vars

\* a failed submission: the error is on display and no result is
C10_Witness ==
    /\ ~isLoading
    /\ pending = <<>>
    /\ error = Str(GenericError)
    /\ view.errorBanner.shown
    /\ result = Null
    /\ view.prediction.kind = "unmounted"

\* the failure err carries a detail string in the body of its response
CarriesDetail(err) ==
    /\ err.response.t = "object"
    /\ err.response.data.t = "object"
    /\ err.response.data.detail.t = "string"

\* C11 as stated: a failed request sets error to the detail string of the
\* response whenever the failure carries one, and to the generic message in
\* every other case.
C11_DetailOrGeneric ==
    [][\A i \in 1..Len(pending) : \A err \in Failures :
            requestRejects(i, err) =>
                error' = (IF CarriesDetail(err) THEN err.response.data.detail
                          ELSE Str(GenericError))]_vars

\* C11: a failed request sets error to the detail of the response when that
\* is a non-empty string, and to the generic message in every other case: no
\* response, a response without a body, a body without detail, and a detail
\* that is the empty string.
C11_NonEmptyDetailOrGeneric ==
    [][\A i \in 1..Len(pending) : \A err \in Failures :
            requestRejects(i, err) =>
                error' = (IF CarriesDetail(err) /\ err.response.data.detail.v # <<>>
                          THEN err.response.data.detail
                          ELSE Str(GenericError))]_vars

\* the detail of a failed request is on display in the error banner
C11_Witness ==
    /\ ~isLoading
    /\ pending = <<>>
    /\ error = Str(DrugNotFound)
    /\ view.errorBanner = [ shown |-> TRUE, text |-> Str(DrugNotFound) ]

----------------------------------------------------------------------------
(* Properties of the request builder (SpecNumbers, SpecLists, SpecToggles) *)

NumericFields == {"age", "weight", "dosage", "duration"}

\* C12: each numeric field of a built request is null or a parsed number that
\* is not NaN and not 0.
C12_NumericFields ==
    \A i \in 1..Len(pending) : \A f \in NumericFields :
        pending[i][f] = Null \/ (pending[i][f].t = "number" /\ pending[i][f].v # 0)

\* C13: a list field (current_medications, allergies) of a built request is
\* never an empty collection: a text that leaves no token yields null.
C13_NoEmptyList ==
    \A i \in 1..Len(pending) :
        /\ pending[i].current_medications # Arr(<<>>)
        /\ pending[i].allergies # Arr(<<>>)

\* the tokens of s from position a + 1 on, a being 0 or the position of a
\* comma: the text up to the next comma without its surrounding spaces, when
\* anything is left of it, then the tokens after that comma
RECURSIVE TokensFrom(_, _)
TokensFrom(s, a) ==
    LET commas == {j \in (a + 1)..Len(s) : s[j] = ","}
        b == IF commas = {} THEN Len(s) + 1
             ELSE CHOOSE j \in commas : \A k \in commas : j <= k
        inked == {j \in (a + 1)..(b - 1) : s[j] # " "}
        first == CHOOSE j \in inked : \A k \in inked : j <= k
        last == CHOOSE j \in inked : \A k \in inked : k <= j
    IN  (IF inked = {} THEN <<>> ELSE <<Str(SubSeq(s, first, last))>>)
            \o (IF b > Len(s) THEN <<>> ELSE TokensFrom(s, b))

\* a step in which a request is started
Submission == Len(pending') = Len(pending) + 1

\* C14: when the text of a list input holds at least one non-blank token, the
\* field of the request built from it is exactly the comma-separated tokens,
\* each without surrounding white space, the empty ones removed, in the order
\* of the text: 'Aspirin, , Ibuprofen' gives ['Aspirin', 'Ibuprofen'].
C14_TokenList ==
    [][Submission =>
        LET body == pending'[Len(pending')]
        IN  /\ TokensFrom(currentMedications.v, 0) # <<>> =>
                    body.current_medications = Arr(TokensFrom(currentMedications.v, 0))
            /\ TokensFrom(allergies.v, 0) # <<>> =>
                    body.allergies = Arr(TokensFrom(allergies.v, 0))
            /\ currentMedications = Str(AspirinIbuprofenText) =>
                    body.current_medications = Arr(<<Str(Aspirin), Str(Ibuprofen)>>)]_vars

\* the request built from 'Aspirin, , Ibuprofen' carries the two names
C14_Witness ==
    /\ Len(pending) = 1
    /\ currentMedications = Str(AspirinIbuprofenText)
    /\ pending[1].current_medications = Arr(<<Str(Aspirin), Str(Ibuprofen)>>)

Member(q, x) == \E i \in 1..Len(q) : q[i] = x
PositionIn(q, x) == CHOOSE i \in 1..Len(q) : q[i] = x
NoDuplicates(q) == \A i, j \in 1..Len(q) : i # j => q[i] # q[j]

\* from prev to next the items that stay keep their relative order, and x,
\* when added, comes last
KeepsOrder(prev, next, x) ==
    /\ \A i, j \in 1..Len(next) :
            (Member(prev, next[i]) /\ Member(prev, next[j])) =>
                (i < j <=> PositionIn(prev, next[i]) < PositionIn(prev, next[j]))
    /\ Member(next, x) => next[Len(next)] = x

\* C15: each toggle set (conditions, lifestyle) never holds a duplicate; an
\* item is a member iff it was toggled an odd number of times; the items that
\* stay keep their relative insertion order; and the field of a built request
\* is null iff the set is empty, and the set otherwise.
C15_ToggleSets ==
    /\ [](/\ NoDuplicates(selectedConditions)
          /\ NoDuplicates(lifestyle)
          /\ \A k \in 1..Len(MEDICAL_CONDITIONS) :
                Member(selectedConditions, MEDICAL_CONDITIONS[k])
                    <=> MEDICAL_CONDITIONS[k] \in toggledOdd
          /\ \A k \in 1..Len(LIFESTYLE_FACTORS) :
                Member(lifestyle, LIFESTYLE_FACTORS[k]) <=> LIFESTYLE_FACTORS[k] \in toggledOdd)
    /\ [][/\ \A k \in 1..Len(MEDICAL_CONDITIONS) :
                toggleCondition(MEDICAL_CONDITIONS[k]) =>
                    KeepsOrder(selectedConditions, selectedConditions', MEDICAL_CONDITIONS[k])
          /\ \A k \in 1..Len(LIFESTYLE_FACTORS) :
                toggleLifestyle(LIFESTYLE_FACTORS[k]) =>
                    KeepsOrder(lifestyle, lifestyle', LIFESTYLE_FACTORS[k])
          /\ Submission =>
                LET body == pending'[Len(pending')]
                IN  /\ body.medical_conditions = Null <=> selectedConditions = <<>>
                    /\ body.medical_conditions # Null =>
                            body.medical_conditions = Arr(selectedConditions)
                    /\ body.lifestyle = Null <=> lifestyle = <<>>
                    /\ body.lifestyle # Null => body.lifestyle = Arr(lifestyle)]_vars

\* the first condition was deselected and selected again, so it now follows
\* the second; the request carries both in that order and no lifestyle
C15_Witness ==
    /\ Len(pending) = 1
    /\ toggledOdd = {MEDICAL_CONDITIONS[1], MEDICAL_CONDITIONS[2]}
    /\ selectedConditions = <<MEDICAL_CONDITIONS[2], MEDICAL_CONDITIONS[1]>>
    /\ lifestyle = <<>>
    /\ pending[1].medical_conditions = Arr(selectedConditions)
    /\ pending[1].lifestyle = Null

----------------------------------------------------------------------------
(* Properties of the requests and of their outcome (Spec) *)

\* C16: every request body sent to the prediction service has the field
\* use_ai_enhancement and its value is true, whatever the form state is.
C16_AiEnhancementFlag ==
    \A i \in 1..Len(pending) :
        /\ "use_ai_enhancement" \in DOMAIN pending[i]
        /\ pending[i].use_ai_enhancement = Bool(TRUE)

\* a request built from a form with an age and a condition carries the flag
C16_Witness ==
    /\ Len(pending) = 1
    /\ pending[1].age = Num(70)
    /\ pending[1].medical_conditions # Null
    /\ pending[1].use_ai_enhancement = Bool(TRUE)

----------------------------------------------------------------------------
(* Properties of the presentation: risk factors and the lists of the AI     *)
(* panel (SpecRender), malformed payloads (SpecMalformed)                   *)

\* C17: every risk-factor token is rendered with each of its underscores
\* replaced by a space and nothing else changed: the text has the length of
\* the token and every other character keeps its value, case and position.
C17_UnderscoresToSpaces ==
    (Displayed /\ result.user_risk_factors.t = "array" /\ Len(result.user_risk_factors.v) > 0) =>
        /\ view.prediction.riskFactors.shown
        /\ Len(view.prediction.riskFactors.chips) = Len(result.user_risk_factors.v)
        /\ \A i \in 1..Len(result.user_risk_factors.v) :
            LET token == result.user_risk_factors.v[i].v
                text == view.prediction.riskFactors.chips[i]
            IN  /\ text.t = "string"
                /\ Len(text.v) = Len(token)
                /\ \A j \in 1..Len(token) :
                    /\ token[j] = "_" => text.v[j] = " "
                    /\ token[j] # "_" => text.v[j] = token[j]

\* a token with two underscores is shown with two spaces
C17_Witness ==
    /\ Displayed
    /\ result.user_risk_factors = Arr(<<Str(chronic_kidney_disease)>>)
    /\ view.prediction.riskFactors.shown
    /\ view.prediction.riskFactors.chips
            = << Str(<<"c", "h", "r", "o", "n", "i", "c", " ", "k", "i", "d", "n", "e", "y", " ", "d", "i", "s", "e", "a", "s", "e">>) >>

\* C18: for a payload with non-empty predictions the render of
\* PredictionResult completes, whatever optional field is absent or of the
\* wrong type: it never ends in a thrown error.
C18_RenderCompletes ==
    (Truthy(result) /\ result.predictions.t = "array" /\ Len(result.predictions.v) > 0) =>
        view.prediction.kind = "element"

\* the AI panel on display
PanelShown == Displayed /\ view.prediction.aiPanel.shown

\* the first min(N, 3) entries of a list of N
FirstThree(list) == [i \in 1..(IF Len(list) < 3 THEN Len(list) ELSE 3) |-> list[i]]

\* C19: the contraindications list and the monitoring list each show exactly
\* the first min(N, 3) entries of their input, in input order; a monitoring
\* entry is shown as its parameter when it is an object that has one, and as
\* the entry itself otherwise.
C19_ListsTruncated ==
    PanelShown =>
        LET contraindications == result.ai_analysis.contraindications
            monitoring == result.ai_analysis.monitoring_parameters
            panel == view.prediction.aiPanel.panel
        IN  /\ (contraindications.t = "object" /\ contraindications.absolute.t = "array") =>
                /\ panel.contraindications.shown
                /\ panel.contraindications.lines = FirstThree(contraindications.absolute.v)
            /\ (monitoring.t = "array" /\ Len(monitoring.v) > 0) =>
                /\ panel.monitoring.shown
                /\ Len(panel.monitoring.lines) = Len(FirstThree(monitoring.v))
                /\ \A i \in 1..Len(panel.monitoring.lines) :
                    panel.monitoring.lines[i] =
                        (IF monitoring.v[i].t = "object" /\ monitoring.v[i].parameter # Undefined
                         THEN monitoring.v[i].parameter
                         ELSE monitoring.v[i])
            /\ monitoring = Arr(<<>>) => ~panel.monitoring.shown

\* of four monitoring entries three are shown: the parameter of the object
\* and the two strings after it
C19_Witness ==
    /\ PanelShown
    /\ result.ai_analysis.monitoring_parameters
            = Arr(<<MonitoringINR, Str(Bleeding), Str(Bleeding), MonitoringINR>>)
    /\ view.prediction.aiPanel.panel.monitoring.shown
    /\ view.prediction.aiPanel.panel.monitoring.lines = <<Str(INR), Str(Bleeding), Str(Bleeding)>>

----------------------------------------------------------------------------
(* Properties of the submission cycle, continued (Spec) *)

\* C20: what is on display belongs to the most recent submission: loading is
\* never false while a request is in flight; the request that completes is
\* always the last one started, no other being in flight, and a result it
\* brings is the answer to that very request; and result and error change
\* only when a request is started or completes, so that once loading is
\* false they are the outcome of the last request started.
C20_LatestSubmission ==
    /\ [](~isLoading => pending = <<>>)
    /\ [][Completion =>
            /\ pending' = SubSeq(pending, 1, Len(pending) - 1)
            /\ pending' = <<>>
            /\ ~isLoading'
            /\ Truthy(result') => result'.drug_found = pending[Len(pending)].drug_name]_vars
    /\ [][(result' # result \/ error' # error) => (Submission \/ Completion)]_vars

\* the result of the Aspirin request is on display, nothing is in flight and
\* the form has since been edited to another drug
C20_Witness ==
    /\ ~isLoading
    /\ pending = <<>>
    /\ Truthy(result)
    /\ result.drug_found = Str(Aspirin)
    /\ view.resultsFor = [ shown |-> TRUE, drug |-> Str(Aspirin), aiEnhanced |-> TRUE ]
    /\ formData.drug_name = Str(Warfarin)

\* C21: every submission eventually leaves the loading state, after a success
\* and after a failure alike, and then the submit button is there and enabled
\* again.
C21_LoadingEnds ==
    isLoading ~> (~isLoading /\ pending = <<>> /\ view.form.mounted /\ ~view.form.submitDisabled)

\* after a failed request loading is over and the form can be submitted again
C21_Witness ==
    /\ ~isLoading
    /\ pending = <<>>
    /\ Truthy(error)
    /\ view.form.mounted
    /\ ~view.form.submitDisabled
    /\ canSubmit

----------------------------------------------------------------------------
(* Properties of the presentation: the two ladders (SpecRender) *)

\* C22: for every severity, in any letter case, and every probability, a
\* card that gets the critical icon is in the High risk tier.
C22_CriticalIconIsHighTier ==
    Displayed =>
        \A i \in 1..Len(view.prediction.cards) :
            view.prediction.cards[i].icon = "AlertOctagon" =>
                view.prediction.cards[i].className = HighClass

----------------------------------------------------------------------------
(* Properties of the toggle sets, continued (SpecToggles) *)

\* every field of the form except the two toggle sets
OtherFields == <<formData, advancedOpen, currentMedications, allergies>>

\* C23 as stated: after a toggle of an item, one more toggle of the same item
\* gives back the toggle set as it was before the first, members and order,
\* whether or not the item was selected; and a toggle changes neither the
\* other toggle set nor any other field of the form.
C23_ToggleTwiceRestores ==
    [][/\ \A k \in 1..Len(MEDICAL_CONDITIONS) :
            toggleCondition(MEDICAL_CONDITIONS[k]) =>
                /\ toggled(selectedConditions', MEDICAL_CONDITIONS[k]) = selectedConditions
                /\ UNCHANGED <<OtherFields, lifestyle>>
       /\ \A k \in 1..Len(LIFESTYLE_FACTORS) :
            toggleLifestyle(LIFESTYLE_FACTORS[k]) =>
                /\ toggled(lifestyle', LIFESTYLE_FACTORS[k]) = lifestyle
                /\ UNCHANGED <<OtherFields, selectedConditions>>]_vars

\* back is prev with the same members, in the same order when x was not in
\* prev or was its last item, and with x moved to the end otherwise
RestoredUpToOrder(prev, back, x) ==
    /\ Len(back) = Len(prev)
    /\ \A i \in 1..Len(prev) : Member(back, prev[i])
    /\ (~Member(prev, x) \/ prev[Len(prev)] = x) => back = prev
    /\ (Member(prev, x) /\ prev[Len(prev)] # x) =>
            /\ back # prev
            /\ back[Len(back)] = x
            /\ \A i, j \in 1..Len(prev) :
                    (i < j /\ prev[i] # x /\ prev[j] # x) =>
                        PositionIn(back, prev[i]) < PositionIn(back, prev[j])

\* C23: after a toggle of an item, one more toggle of the same item gives
\* back the members of the toggle set as they were before the first; the
\* order too when the item was not selected or was the last one selected,
\* while a selected item that was not the last ends up last, the others
\* keeping their order; and a toggle changes neither the other toggle set
\* nor any other field of the form.
C23_ToggleTwiceRestoresMembers ==
    [][/\ \A k \in 1..Len(MEDICAL_CONDITIONS) :
            toggleCondition(MEDICAL_CONDITIONS[k]) =>
                /\ RestoredUpToOrder(selectedConditions,
                                     toggled(selectedConditions', MEDICAL_CONDITIONS[k]),
                                     MEDICAL_CONDITIONS[k])
                /\ UNCHANGED <<OtherFields, lifestyle>>
       /\ \A k \in 1..Len(LIFESTYLE_FACTORS) :
            toggleLifestyle(LIFESTYLE_FACTORS[k]) =>
                /\ RestoredUpToOrder(lifestyle, toggled(lifestyle', LIFESTYLE_FACTORS[k]),
                                     LIFESTYLE_FACTORS[k])
                /\ UNCHANGED <<OtherFields, selectedConditions>>]_vars

\* every condition has been toggled an even number of times and the set is
\* empty again, while the first lifestyle factor follows the second, where a
\* double toggle puts it when the second is selected
C23_Witness ==
    /\ selectedConditions = <<>>
    /\ toggledOdd = {LIFESTYLE_FACTORS[1], LIFESTYLE_FACTORS[2]}
    /\ lifestyle = <<LIFESTYLE_FACTORS[2], LIFESTYLE_FACTORS[1]>>
    /\ advancedOpen

====
